---- MODULE Spec2Model ----
(***************************************************************************)
(* Model of the environment-compatibility core of uv:                      *)
(*   crates/uv/src/commands/pip/mod.rs                                     *)
(*       resolution_markers, resolution_tags, resolution_environment       *)
(*   crates/uv-python/src/sysconfig/replacements.rs                        *)
(*       ReplacementEntry::patch                                           *)
(*                                                                         *)
(* The four functions are pure.  Each is an operator that returns the      *)
(* value the function returns together with the sequence of calls it makes *)
(* into the collaborating crates (Tags::from_env, Interpreter::tags,       *)
(* TargetTriple::markers, PythonVersion::markers, ...).  Callers are       *)
(* threads that invoke a function, run it, and return.                     *)
(***************************************************************************)
EXTENDS Integers, Sequences, FiniteSets, TLC

VARIABLES interp, rejected, entry, calls

vars == <<interp, rejected, entry, calls>>

(***************************************************************************)
(* Bounds of the model.                                                    *)
(***************************************************************************)
\* Longest original sysconfig value handed to patch.
MaxLen == 5
\* Number of concurrent callers in SpecConc.
NumThreads == 2

(***************************************************************************)
(* Option<T>, Result<T, E> and Cow<T>.                                     *)
(***************************************************************************)
None == {}
Some(x) == {x}
IsSome(o) == o # {}
Unwrap(o) == CHOOSE x \in o : TRUE

Ok(v) == [kind |-> "Ok", value |-> {v}, error |-> {}]
Err(e) == [kind |-> "Err", value |-> {}, error |-> {e}]
IsOk(r) == r.kind = "Ok"
IsErr(r) == r.kind = "Err"
OkValue(r) == Unwrap(r.value)

CowOwned(t) == [cow |-> "Owned", tags |-> t]
CowBorrowed(t) == [cow |-> "Borrowed", tags |-> t]

(***************************************************************************)
(* Override inputs: PythonVersion and TargetTriple.                        *)
(***************************************************************************)
PythonVersions ==
    { [major |-> 3, minor |-> 9, patch |-> 2],
      [major |-> 3, minor |-> 12, patch |-> 0] }

Major(v) == v.major
Minor(v) == v.minor

TargetTriples == { "x86_64-unknown-linux-gnu", "x86_64-pc-windows-msvc" }

\* TargetTriple::platform
TargetPlatform(t) ==
    IF t = "x86_64-unknown-linux-gnu" THEN "linux-x86_64" ELSE "windows-x86_64"

\* TargetTriple::manylinux_compatible
TargetManylinuxCompatible(t) == t = "x86_64-unknown-linux-gnu"

(***************************************************************************)
(* Interpreter facts.                                                      *)
(***************************************************************************)
Implementations ==
    { [name |-> "cpython", tuple |-> <<3, 11>>],
      [name |-> "pypy", tuple |-> <<7, 3>>] }

Interpreters ==
    { [ platform |-> p,
        python_tuple |-> v,
        implementation_name |-> i.name,
        implementation_tuple |-> i.tuple,
        manylinux_compatible |-> m,
        gil_disabled |-> g,
        tags_ok |-> k ] :
      p \in {"linux-x86_64", "macos-arm64"},
      v \in {<<3, 11>>, <<3, 12>>},
      i \in Implementations,
      m \in BOOLEAN, g \in BOOLEAN, k \in BOOLEAN }

\* A record of one call into a collaborating crate.
ExternalCall(fn) ==
    [fn |-> fn, version |-> {}, target |-> {}, base |-> {}, env |-> {}]

\* The six arguments of Tags::from_env.
TagEnv(platform, python_tuple, implementation_name, implementation_tuple, manylinux_compatible, gil_disabled) ==
    [ platform |-> platform,
      python_tuple |-> python_tuple,
      implementation_name |-> implementation_name,
      implementation_tuple |-> implementation_tuple,
      manylinux_compatible |-> manylinux_compatible,
      gil_disabled |-> gil_disabled ]

TagEnvs ==
    { TagEnv(p, v, i.name, i.tuple, m, g) :
      p \in {"linux-x86_64", "macos-arm64", "windows-x86_64"},
      v \in {<<3, 9>>, <<3, 11>>, <<3, 12>>},
      i \in Implementations,
      m \in BOOLEAN, g \in BOOLEAN }

\* The tag list: the environment it was generated for, or the interpreter's
\* own precomputed list.
GeneratedTags(env) == [source |-> "Tags::from_env", env |-> {env}]
InterpreterTagList == [source |-> "Interpreter::tags", env |-> {}]

\* Tags::from_env: a deterministic function of its arguments that fails on
\* the environments it cannot produce tags for.
TagsFromEnv(env) ==
    IF env \in rejected
    THEN Err([source |-> "Tags::from_env", env |-> {env}])
    ELSE Ok(GeneratedTags(env))

\* Interpreter::tags: the precomputed default tag list, or the error of
\* computing it.
InterpreterTags(interpreter) ==
    IF interpreter.tags_ok
    THEN Ok(InterpreterTagList)
    ELSE Err([source |-> "Interpreter::tags", env |-> {}])

(***************************************************************************)
(* Marker environments.                                                    *)
(***************************************************************************)
SysPlatform(platform) ==
    CASE platform = "linux-x86_64" -> "linux"
      [] platform = "macos-arm64" -> "darwin"
      [] OTHER -> "win32"

\* Interpreter::markers
InterpreterMarkers(interpreter) ==
    [ python_version |-> interpreter.python_tuple,
      python_full_version |-> interpreter.python_tuple \o <<0>>,
      sys_platform |-> SysPlatform(interpreter.platform),
      implementation_name |-> interpreter.implementation_name ]

\* TargetTriple::markers: the platform fields of the target over `base`.
TargetMarkers(t, base) ==
    [base EXCEPT !.sys_platform = SysPlatform(TargetPlatform(t))]

\* PythonVersion::markers: the version fields of the override over `base`.
VersionMarkers(v, base) ==
    [base EXCEPT !.python_version = <<v.major, v.minor>>,
                 !.python_full_version = <<v.major, v.minor, v.patch>>]

\* ResolverMarkerEnvironment::from
ResolverMarkerEnvironmentFrom(m) == [resolver |-> TRUE, markers |-> m]

\* Interpreter::resolver_marker_environment
InterpreterResolverMarkerEnvironment(interpreter) ==
    ResolverMarkerEnvironmentFrom(InterpreterMarkers(interpreter))

(***************************************************************************)
(* Calls into the collaborating crates, each with the record of the call.  *)
(***************************************************************************)
CallTagsFromEnv(env) ==
    [ ret |-> TagsFromEnv(env),
      calls |-> << [ExternalCall("Tags::from_env") EXCEPT !.env = {env}] >> ]

CallInterpreterTags(interpreter) ==
    [ ret |-> InterpreterTags(interpreter),
      calls |-> << ExternalCall("Interpreter::tags") >> ]

CallInterpreterMarkers(interpreter) ==
    [ ret |-> InterpreterMarkers(interpreter),
      calls |-> << ExternalCall("Interpreter::markers") >> ]

CallTargetMarkers(t, base) ==
    [ ret |-> TargetMarkers(t, base),
      calls |-> << [ExternalCall("TargetTriple::markers")
                        EXCEPT !.target = {t}, !.base = {base}] >> ]

CallVersionMarkers(v, base) ==
    [ ret |-> VersionMarkers(v, base),
      calls |-> << [ExternalCall("PythonVersion::markers")
                        EXCEPT !.version = {v}, !.base = {base}] >> ]

CallResolverMarkerEnvironmentFrom(m) ==
    [ ret |-> ResolverMarkerEnvironmentFrom(m),
      calls |-> << [ExternalCall("ResolverMarkerEnvironment::from")
                        EXCEPT !.base = {m}] >> ]

CallInterpreterResolverMarkerEnvironment(interpreter) ==
    [ ret |-> InterpreterResolverMarkerEnvironment(interpreter),
      calls |-> << ExternalCall("Interpreter::resolver_marker_environment") >> ]

(***************************************************************************)
(* resolution_markers                                                      *)
(***************************************************************************)
\* resolution_markers with the two layers applied in the other order.
ResolutionMarkersVersionFirst(python_version, python_platform, interpreter) ==
    CASE IsSome(python_platform) /\ IsSome(python_version) ->
           LET p == Unwrap(python_platform)
               v == Unwrap(python_version)
               m0 == CallInterpreterMarkers(interpreter)
               m1 == CallVersionMarkers(v, m0.ret)
               m2 == CallTargetMarkers(p, m1.ret)
               r == CallResolverMarkerEnvironmentFrom(m2.ret)
           IN [ret |-> r.ret,
               calls |-> m0.calls \o m1.calls \o m2.calls \o r.calls]
      [] IsSome(python_platform) /\ ~IsSome(python_version) ->
           LET p == Unwrap(python_platform)
               m0 == CallInterpreterMarkers(interpreter)
               m1 == CallTargetMarkers(p, m0.ret)
               r == CallResolverMarkerEnvironmentFrom(m1.ret)
           IN [ret |-> r.ret, calls |-> m0.calls \o m1.calls \o r.calls]
      [] ~IsSome(python_platform) /\ IsSome(python_version) ->
           LET v == Unwrap(python_version)
               m0 == CallInterpreterMarkers(interpreter)
               m1 == CallVersionMarkers(v, m0.ret)
               r == CallResolverMarkerEnvironmentFrom(m1.ret)
           IN [ret |-> r.ret, calls |-> m0.calls \o m1.calls \o r.calls]
      [] OTHER -> CallInterpreterResolverMarkerEnvironment(interpreter)

ResolutionMarkers(python_version, python_platform, interpreter) ==
    CASE IsSome(python_platform) /\ IsSome(python_version) ->
           LET p == Unwrap(python_platform)
               v == Unwrap(python_version)
               m0 == CallInterpreterMarkers(interpreter)
               m1 == CallTargetMarkers(p, m0.ret)
               m2 == CallVersionMarkers(v, m1.ret)
               r == CallResolverMarkerEnvironmentFrom(m2.ret)
           IN [ret |-> r.ret,
               calls |-> m0.calls \o m1.calls \o m2.calls \o r.calls]
      [] IsSome(python_platform) /\ ~IsSome(python_version) ->
           LET p == Unwrap(python_platform)
               m0 == CallInterpreterMarkers(interpreter)
               m1 == CallTargetMarkers(p, m0.ret)
               r == CallResolverMarkerEnvironmentFrom(m1.ret)
           IN [ret |-> r.ret, calls |-> m0.calls \o m1.calls \o r.calls]
      [] ~IsSome(python_platform) /\ IsSome(python_version) ->
           LET v == Unwrap(python_version)
               m0 == CallInterpreterMarkers(interpreter)
               m1 == CallVersionMarkers(v, m0.ret)
               r == CallResolverMarkerEnvironmentFrom(m1.ret)
           IN [ret |-> r.ret, calls |-> m0.calls \o m1.calls \o r.calls]
      [] OTHER -> CallInterpreterResolverMarkerEnvironment(interpreter)

(***************************************************************************)
(* resolution_tags                                                         *)
(***************************************************************************)
\* Cow::Owned with a failure of Tags::from_env recovered by a second attempt.
OwnedOrErrRetried(c) ==
    [ret |-> IF IsErr(c.ret) THEN c.ret ELSE Ok(CowOwned(OkValue(c.ret))),
     calls |-> IF IsErr(c.ret) THEN c.calls \o c.calls ELSE c.calls]

\* Cow::Owned(Tags::from_env(..)?): an error leaves through `?` unchanged.
OwnedOrErr(c) ==
    [ret |-> IF IsErr(c.ret) THEN c.ret ELSE Ok(CowOwned(OkValue(c.ret))),
     calls |-> c.calls]

\* Cow::Borrowed(interpreter.tags()?)
BorrowedOrErr(c) ==
    [ret |-> IF IsErr(c.ret) THEN c.ret ELSE Ok(CowBorrowed(OkValue(c.ret))),
     calls |-> c.calls]

\* resolution_tags with the default tags regenerated instead of borrowed.
ResolutionTagsRecomputed(python_version, python_platform, interpreter) ==
    CASE IsSome(python_platform) /\ IsSome(python_version) ->
           LET p == Unwrap(python_platform)
               v == Unwrap(python_version)
           IN OwnedOrErr(CallTagsFromEnv(TagEnv(TargetPlatform(p), <<Major(v), Minor(v)>>, interpreter.implementation_name, interpreter.implementation_tuple, TargetManylinuxCompatible(p), interpreter.gil_disabled)))
      [] IsSome(python_platform) /\ ~IsSome(python_version) ->
           LET p == Unwrap(python_platform)
           IN OwnedOrErr(CallTagsFromEnv(TagEnv(TargetPlatform(p), interpreter.python_tuple, interpreter.implementation_name, interpreter.implementation_tuple, TargetManylinuxCompatible(p), interpreter.gil_disabled)))
      [] ~IsSome(python_platform) /\ IsSome(python_version) ->
           LET v == Unwrap(python_version)
           IN OwnedOrErr(CallTagsFromEnv(TagEnv(interpreter.platform, <<Major(v), Minor(v)>>, interpreter.implementation_name, interpreter.implementation_tuple, interpreter.manylinux_compatible, interpreter.gil_disabled)))
      [] OTHER -> OwnedOrErr(CallTagsFromEnv(TagEnv(interpreter.platform, interpreter.python_tuple, interpreter.implementation_name, interpreter.implementation_tuple, interpreter.manylinux_compatible, interpreter.gil_disabled)))

\* resolution_tags with the version override passed as the implementation tuple too.
ResolutionTagsVersionAsImplementation(python_version, python_platform, interpreter) ==
    CASE IsSome(python_platform) /\ IsSome(python_version) ->
           LET p == Unwrap(python_platform)
               v == Unwrap(python_version)
           IN OwnedOrErr(CallTagsFromEnv(TagEnv(TargetPlatform(p), <<Major(v), Minor(v)>>, interpreter.implementation_name, <<Major(v), Minor(v)>>, TargetManylinuxCompatible(p), interpreter.gil_disabled)))
      [] IsSome(python_platform) /\ ~IsSome(python_version) ->
           LET p == Unwrap(python_platform)
           IN OwnedOrErr(CallTagsFromEnv(TagEnv(TargetPlatform(p), interpreter.python_tuple, interpreter.implementation_name, interpreter.implementation_tuple, TargetManylinuxCompatible(p), interpreter.gil_disabled)))
      [] ~IsSome(python_platform) /\ IsSome(python_version) ->
           LET v == Unwrap(python_version)
           IN OwnedOrErr(CallTagsFromEnv(TagEnv(interpreter.platform, <<Major(v), Minor(v)>>, interpreter.implementation_name, interpreter.implementation_tuple, interpreter.manylinux_compatible, interpreter.gil_disabled)))
      [] OTHER -> BorrowedOrErr(CallInterpreterTags(interpreter))

\* resolution_tags with the interpreter's manylinux compatibility kept for a target platform.
ResolutionTagsInterpreterManylinux(python_version, python_platform, interpreter) ==
    CASE IsSome(python_platform) /\ IsSome(python_version) ->
           LET p == Unwrap(python_platform)
               v == Unwrap(python_version)
           IN OwnedOrErr(CallTagsFromEnv(TagEnv(TargetPlatform(p), <<Major(v), Minor(v)>>, interpreter.implementation_name, interpreter.implementation_tuple, TargetManylinuxCompatible(p), interpreter.gil_disabled)))
      [] IsSome(python_platform) /\ ~IsSome(python_version) ->
           LET p == Unwrap(python_platform)
           IN OwnedOrErr(CallTagsFromEnv(TagEnv(TargetPlatform(p), interpreter.python_tuple, interpreter.implementation_name, interpreter.implementation_tuple, interpreter.manylinux_compatible, interpreter.gil_disabled)))
      [] ~IsSome(python_platform) /\ IsSome(python_version) ->
           LET v == Unwrap(python_version)
           IN OwnedOrErr(CallTagsFromEnv(TagEnv(interpreter.platform, <<Major(v), Minor(v)>>, interpreter.implementation_name, interpreter.implementation_tuple, interpreter.manylinux_compatible, interpreter.gil_disabled)))
      [] OTHER -> BorrowedOrErr(CallInterpreterTags(interpreter))

ResolutionTags(python_version, python_platform, interpreter) ==
    CASE IsSome(python_platform) /\ IsSome(python_version) ->
           LET p == Unwrap(python_platform)
               v == Unwrap(python_version)
           IN OwnedOrErr(CallTagsFromEnv(TagEnv(
                  TargetPlatform(p),
                  <<Major(v), Minor(v)>>,
                  interpreter.implementation_name,
                  interpreter.implementation_tuple,
                  TargetManylinuxCompatible(p),
                  interpreter.gil_disabled)))
      [] IsSome(python_platform) /\ ~IsSome(python_version) ->
           LET p == Unwrap(python_platform)
           IN OwnedOrErr(CallTagsFromEnv(TagEnv(
                  TargetPlatform(p),
                  interpreter.python_tuple,
                  interpreter.implementation_name,
                  interpreter.implementation_tuple,
                  TargetManylinuxCompatible(p),
                  interpreter.gil_disabled)))
      [] ~IsSome(python_platform) /\ IsSome(python_version) ->
           LET v == Unwrap(python_version)
           IN OwnedOrErr(CallTagsFromEnv(TagEnv(
                  interpreter.platform,
                  <<Major(v), Minor(v)>>,
                  interpreter.implementation_name,
                  interpreter.implementation_tuple,
                  interpreter.manylinux_compatible,
                  interpreter.gil_disabled)))
      [] OTHER -> BorrowedOrErr(CallInterpreterTags(interpreter))

(***************************************************************************)
(* resolution_environment                                                  *)
(***************************************************************************)
\* The tags of resolution_environment with the version override dropped when no platform is given.
EnvironmentTagsInterpreterTuple(python_version, python_platform, interpreter) ==
    CASE IsSome(python_platform) /\ IsSome(python_version) ->
           LET p == Unwrap(python_platform)
               v == Unwrap(python_version)
           IN OwnedOrErr(CallTagsFromEnv(TagEnv(TargetPlatform(p), <<Major(v), Minor(v)>>, interpreter.implementation_name, interpreter.implementation_tuple, TargetManylinuxCompatible(p), interpreter.gil_disabled)))
      [] IsSome(python_platform) /\ ~IsSome(python_version) ->
           LET p == Unwrap(python_platform)
           IN OwnedOrErr(CallTagsFromEnv(TagEnv(TargetPlatform(p), interpreter.python_tuple, interpreter.implementation_name, interpreter.implementation_tuple, TargetManylinuxCompatible(p), interpreter.gil_disabled)))
      [] ~IsSome(python_platform) /\ IsSome(python_version) ->
           LET v == Unwrap(python_version)
           IN OwnedOrErr(CallTagsFromEnv(TagEnv(interpreter.platform, interpreter.python_tuple, interpreter.implementation_name, interpreter.implementation_tuple, interpreter.manylinux_compatible, interpreter.gil_disabled)))
      [] OTHER -> BorrowedOrErr(CallInterpreterTags(interpreter))

\* let tags = match (python_platform, python_version.as_ref()) { .. };
EnvironmentTags(python_version, python_platform, interpreter) ==
    CASE IsSome(python_platform) /\ IsSome(python_version) ->
           LET p == Unwrap(python_platform)
               v == Unwrap(python_version)
           IN OwnedOrErr(CallTagsFromEnv(TagEnv(
                  TargetPlatform(p),
                  <<Major(v), Minor(v)>>,
                  interpreter.implementation_name,
                  interpreter.implementation_tuple,
                  TargetManylinuxCompatible(p),
                  interpreter.gil_disabled)))
      [] IsSome(python_platform) /\ ~IsSome(python_version) ->
           LET p == Unwrap(python_platform)
           IN OwnedOrErr(CallTagsFromEnv(TagEnv(
                  TargetPlatform(p),
                  interpreter.python_tuple,
                  interpreter.implementation_name,
                  interpreter.implementation_tuple,
                  TargetManylinuxCompatible(p),
                  interpreter.gil_disabled)))
      [] ~IsSome(python_platform) /\ IsSome(python_version) ->
           LET v == Unwrap(python_version)
           IN OwnedOrErr(CallTagsFromEnv(TagEnv(
                  interpreter.platform,
                  <<Major(v), Minor(v)>>,
                  interpreter.implementation_name,
                  interpreter.implementation_tuple,
                  interpreter.manylinux_compatible,
                  interpreter.gil_disabled)))
      [] OTHER -> BorrowedOrErr(CallInterpreterTags(interpreter))

\* let markers = match (python_platform, python_version) { .. };
EnvironmentMarkers(python_version, python_platform, interpreter) ==
    CASE IsSome(python_platform) /\ IsSome(python_version) ->
           LET p == Unwrap(python_platform)
               v == Unwrap(python_version)
               m0 == CallInterpreterMarkers(interpreter)
               m1 == CallTargetMarkers(p, m0.ret)
               m2 == CallVersionMarkers(v, m1.ret)
               r == CallResolverMarkerEnvironmentFrom(m2.ret)
           IN [ret |-> r.ret,
               calls |-> m0.calls \o m1.calls \o m2.calls \o r.calls]
      [] IsSome(python_platform) /\ ~IsSome(python_version) ->
           LET p == Unwrap(python_platform)
               m0 == CallInterpreterMarkers(interpreter)
               m1 == CallTargetMarkers(p, m0.ret)
               r == CallResolverMarkerEnvironmentFrom(m1.ret)
           IN [ret |-> r.ret, calls |-> m0.calls \o m1.calls \o r.calls]
      [] ~IsSome(python_platform) /\ IsSome(python_version) ->
           LET v == Unwrap(python_version)
               m0 == CallInterpreterMarkers(interpreter)
               m1 == CallVersionMarkers(v, m0.ret)
               r == CallResolverMarkerEnvironmentFrom(m1.ret)
           IN [ret |-> r.ret, calls |-> m0.calls \o m1.calls \o r.calls]
      [] OTHER -> CallInterpreterResolverMarkerEnvironment(interpreter)

ResolutionEnvironment(python_version, python_platform, interpreter) ==
    LET tags == EnvironmentTags(python_version, python_platform, interpreter)
        markers == EnvironmentMarkers(python_version, python_platform, interpreter)
    IN IF IsErr(tags.ret)
       THEN [ret |-> tags.ret, calls |-> tags.calls]
       ELSE [ret |-> Ok(<<OkValue(tags.ret), markers.ret>>),
             calls |-> tags.calls \o markers.calls]

(***************************************************************************)
(* Strings are sequences of characters.                                    *)
(***************************************************************************)
Alphabet == {"a", "b", " "}

\* char::is_whitespace, over the characters the model uses
IsWhitespace(c) == c \in {" ", "\t", "\n"}

StringsUpTo(n) == UNION { [1..k -> Alphabet] : k \in 0..n }

\* Length of the longest prefix of s without whitespace.
RECURSIVE WordLen(_)
WordLen(s) ==
    IF s = <<>> \/ IsWhitespace(Head(s)) THEN 0 ELSE 1 + WordLen(Tail(s))

\* str::split_whitespace, collected: the non-empty maximal runs of
\* non-whitespace characters, in order.
RECURSIVE SplitWhitespace(_)
SplitWhitespace(s) ==
    IF s = <<>> THEN <<>>
    ELSE IF IsWhitespace(Head(s)) THEN SplitWhitespace(Tail(s))
    ELSE LET n == WordLen(s)
         IN <<SubSeq(s, 1, n)>> \o SplitWhitespace(SubSeq(s, n + 1, Len(s)))

\* [&str]::join
RECURSIVE Join(_, _)
Join(words, sep) ==
    IF words = <<>> THEN <<>>
    ELSE IF Len(words) = 1 THEN words[1]
    ELSE words[1] \o sep \o Join(Tail(words), sep)

(***************************************************************************)
(* ReplacementMode, ReplacementEntry and ReplacementEntry::patch           *)
(***************************************************************************)
Partial(from) == [kind |-> "Partial", from |-> {from}]
Full == [kind |-> "Full", from |-> {}]

ReplacementEntry(mode, to) == [mode |-> mode, to |-> to]

\* str::split(' '), collected: the pieces between single spaces, empty ones kept.
RECURSIVE SplitOnSpace(_)
SplitOnSpace(s) ==
    IF \A i \in DOMAIN s : s[i] # " " THEN <<s>>
    ELSE LET i == CHOOSE j \in DOMAIN s :
                      s[j] = " " /\ \A k \in 1..(j - 1) : s[k] # " "
         IN <<SubSeq(s, 1, i - 1)>> \o SplitOnSpace(SubSeq(s, i + 1, Len(s)))

\* patch splitting on the space character instead of on whitespace.
PatchSplitOnSpace(self, original) ==
    IF self.mode.kind = "Partial"
    THEN LET from == Unwrap(self.mode.from)
             words == SplitOnSpace(original)
             mapped == [i \in 1..Len(words) |->
                           IF words[i] = from THEN self.to ELSE words[i]]
         IN Join(mapped, <<" ">>)
    ELSE self.to

\* patch replacing only the first word equal to `from`.
PatchFirstOnly(self, original) ==
    IF self.mode.kind = "Partial"
    THEN LET from == Unwrap(self.mode.from)
             words == SplitWhitespace(original)
             mapped == [i \in 1..Len(words) |->
                           IF words[i] = from /\ \A j \in 1..(i - 1) : words[j] # from
                           THEN self.to ELSE words[i]]
         IN Join(mapped, <<" ">>)
    ELSE self.to

\* patch whose Full mode leaves an empty value empty.
PatchFullKeepsEmpty(self, original) ==
    IF self.mode.kind = "Partial"
    THEN LET from == Unwrap(self.mode.from)
             words == SplitWhitespace(original)
             mapped == [i \in 1..Len(words) |->
                           IF words[i] = from THEN self.to ELSE words[i]]
         IN Join(mapped, <<" ">>)
    ELSE IF original = <<>> THEN original ELSE self.to

Patch(self, original) ==
    IF self.mode.kind = "Partial"
    THEN LET from == Unwrap(self.mode.from)
             words == SplitWhitespace(original)
             mapped == [i \in 1..Len(words) |->
                           IF words[i] = from THEN self.to ELSE words[i]]
         IN Join(mapped, <<" ">>)
    ELSE self.to

(***************************************************************************)
(* Inputs the callers draw from.                                           *)
(***************************************************************************)
OptionalVersions == {None} \cup { Some(v) : v \in PythonVersions }
OptionalTargets == {None} \cup { Some(t) : t \in TargetTriples }

ResolverOps == {"resolution_markers", "resolution_tags", "resolution_environment"}

\* Tags::from_env rejects no environment, or one.
Rejections == {{}} \cup { {e} : e \in TagEnvs }

ExtraOriginals ==
    { <<"a", "\t", "b">>,
      <<"\t", "a", " ", "\n", "a", "\n">>,
      <<"b", "\t", "\t", "a", "b", " ", "a">>,
      <<"b", " ", " ", "c">> }

Originals == StringsUpTo(MaxLen) \cup ExtraOriginals

FromStrings == { <<"a">>, <<"a", "b">>, <<>>, <<"a", " ", "b">> }
ToStrings == { <<"Z">>, <<>>, <<"a">>, <<"b">>, <<"Z", "a">>, <<"Z", " ", "a">> }

Entries ==
    { ReplacementEntry(Full, to) : to \in ToStrings }
    \cup { ReplacementEntry(Partial(from), to) :
              from \in FromStrings, to \in ToStrings }

DefaultInterpreter ==
    [ platform |-> "linux-x86_64",
      python_tuple |-> <<3, 11>>,
      implementation_name |-> "cpython",
      implementation_tuple |-> <<3, 11>>,
      manylinux_compatible |-> TRUE,
      gil_disabled |-> FALSE,
      tags_ok |-> TRUE ]

DefaultEntry == ReplacementEntry(Partial(<<"a">>), <<"Z">>)

\* The inputs of the concurrent callers.
ConcRejections ==
    { {},
      { TagEnv("windows-x86_64", <<3, 11>>, "cpython", <<3, 11>>, FALSE, FALSE) } }
ConcEntries == { DefaultEntry, ReplacementEntry(Full, <<"Z">>) }
ConcVersions == { None, Some([major |-> 3, minor |-> 9, patch |-> 2]) }
ConcTargets == { None, Some("x86_64-pc-windows-msvc") }
ConcOriginals == { <<>>, <<"a", " ", "b", " ", "a">>, <<"b", " ", " ", "a">> }

(***************************************************************************)
(* Callers.                                                                *)
(***************************************************************************)
Idle ==
    [ op |-> "none", pc |-> "idle",
      python_version |-> None, python_platform |-> None,
      original |-> <<>>, ret |-> {}, trace |-> <<>>,
      again |-> FALSE, first |-> {} ]

InitWith(threads, interps, rejections, entries) ==
    /\ interp \in interps
    /\ rejected \in rejections
    /\ entry \in entries
    /\ calls = [t \in threads |-> Idle]

\* A caller invokes one of the three resolvers with its overrides.
CallResolver(t, op, v, p) ==
    /\ calls[t].pc = "idle"
    /\ calls' = [calls EXCEPT ![t] =
                    [Idle EXCEPT !.op = op, !.pc = "called",
                                 !.python_version = v, !.python_platform = p]]
    /\ UNCHANGED <<interp, rejected, entry>>

\* A caller invokes patch on the shared replacement entry.
CallPatch(t, o) ==
    /\ calls[t].pc = "idle"
    /\ calls' = [calls EXCEPT ![t] =
                    [Idle EXCEPT !.op = "patch", !.pc = "called", !.original = o]]
    /\ UNCHANGED <<interp, rejected, entry>>

Finish(t, r) ==
    calls' = [calls EXCEPT ![t].pc = "done", ![t].ret = {r.ret}, ![t].trace = r.calls]

RunResolutionMarkers(t) ==
    /\ calls[t].pc = "called"
    /\ calls[t].op = "resolution_markers"
    /\ Finish(t, ResolutionMarkers(calls[t].python_version, calls[t].python_platform, interp))
    /\ UNCHANGED <<interp, rejected, entry>>

RunResolutionTags(t) ==
    /\ calls[t].pc = "called"
    /\ calls[t].op = "resolution_tags"
    /\ Finish(t, ResolutionTags(calls[t].python_version, calls[t].python_platform, interp))
    /\ UNCHANGED <<interp, rejected, entry>>

RunResolutionEnvironment(t) ==
    /\ calls[t].pc = "called"
    /\ calls[t].op = "resolution_environment"
    /\ Finish(t, ResolutionEnvironment(calls[t].python_version, calls[t].python_platform, interp))
    /\ UNCHANGED <<interp, rejected, entry>>

\* patch remembering its last result in the shared entry.
RunPatchInPlace(t) ==
    /\ calls[t].pc = "called"
    /\ calls[t].op = "patch"
    /\ Finish(t, [ret |-> Patch(entry, calls[t].original), calls |-> <<>>])
    /\ entry' = [entry EXCEPT !.to = Patch(entry, calls[t].original)]
    /\ UNCHANGED <<interp, rejected>>

RunPatch(t) ==
    /\ calls[t].pc = "called"
    /\ calls[t].op = "patch"
    /\ Finish(t, [ret |-> Patch(entry, calls[t].original), calls |-> <<>>])
    /\ UNCHANGED <<interp, rejected, entry>>

\* The caller applies the entry again, to the value patch returned.
Repatch(t) ==
    /\ calls[t].pc = "done"
    /\ calls[t].op = "patch"
    /\ ~calls[t].again
    /\ calls' = [calls EXCEPT ![t] =
                    [Idle EXCEPT !.op = "patch", !.pc = "called",
                                 !.original = Unwrap(calls[t].ret),
                                 !.again = TRUE,
                                 !.first = {calls[t].original}]]
    /\ UNCHANGED <<interp, rejected, entry>>

Return(t) ==
    /\ calls[t].pc = "done"
    /\ calls' = [calls EXCEPT ![t] = Idle]
    /\ UNCHANGED <<interp, rejected, entry>>

(***************************************************************************)
(* Spec: one caller of the three resolvers, over every interpreter, every  *)
(* override combination and every rejection of Tags::from_env.             *)
(***************************************************************************)
Init == InitWith({1}, Interpreters, Rejections, {DefaultEntry})

Next ==
    \/ \E t \in DOMAIN calls, op \in ResolverOps, v \in OptionalVersions, p \in OptionalTargets :
           CallResolver(t, op, v, p)
    \/ \E t \in DOMAIN calls : RunResolutionMarkers(t)
    \/ \E t \in DOMAIN calls : RunResolutionTags(t)
    \/ \E t \in DOMAIN calls : RunResolutionEnvironment(t)
    \/ \E t \in DOMAIN calls : Return(t)

Spec == Init /\ [][Next]_vars

(***************************************************************************)
(* SpecPatch: one caller of patch, over every entry and original.          *)
(***************************************************************************)
InitPatch == InitWith({1}, {DefaultInterpreter}, {{}}, Entries)

NextPatch ==
    \/ \E t \in DOMAIN calls, o \in Originals : CallPatch(t, o)
    \/ \E t \in DOMAIN calls : RunPatch(t)
    \/ \E t \in DOMAIN calls : Repatch(t)
    \/ \E t \in DOMAIN calls : Return(t)

SpecPatch == InitPatch /\ [][NextPatch]_vars

(***************************************************************************)
(* SpecConc: NumThreads callers of all four functions, interleaved.        *)
(***************************************************************************)
InitConc == InitWith(1..NumThreads, {DefaultInterpreter}, ConcRejections, ConcEntries)

NextConc ==
    \/ \E t \in DOMAIN calls, op \in ResolverOps, v \in ConcVersions, p \in ConcTargets :
           CallResolver(t, op, v, p)
    \/ \E t \in DOMAIN calls, o \in ConcOriginals : CallPatch(t, o)
    \/ \E t \in DOMAIN calls : RunResolutionMarkers(t)
    \/ \E t \in DOMAIN calls : RunResolutionTags(t)
    \/ \E t \in DOMAIN calls : RunResolutionEnvironment(t)
    \/ \E t \in DOMAIN calls : RunPatch(t)
    \/ \E t \in DOMAIN calls : Return(t)

SpecConc == InitConc /\ [][NextConc]_vars

(***************************************************************************)
(* Properties of the resolvers (Spec).                                     *)
(***************************************************************************)
Done(t, op) == calls[t].pc = "done" /\ calls[t].op = op
Returned(t) == Unwrap(calls[t].ret)

CallsTo(trace, fn) == { i \in DOMAIN trace : trace[i].fn = fn }

Version39 == Some([major |-> 3, minor |-> 9, patch |-> 2])
Windows == Some("x86_64-pc-windows-msvc")

\* C1: resolution_environment(v, p, interpreter) has the outcome of the pair
\* (resolution_tags(v, p, interpreter), resolution_markers(v, p, interpreter)):
\* Ok((tags, markers)) with exactly those tags and markers when
\* resolution_tags succeeds, and the same error when resolution_tags fails.
C1_EnvironmentIsProduct ==
    \A t \in DOMAIN calls :
        Done(t, "resolution_environment") =>
            LET c == calls[t]
                tags == ResolutionTags(c.python_version, c.python_platform, interp).ret
                markers == ResolutionMarkers(c.python_version, c.python_platform, interp).ret
            IN IF IsOk(tags)
               THEN c.ret = {Ok(<<OkValue(tags), markers>>)}
               ELSE c.ret = {tags}

\* resolution_environment returned Ok with both overrides set, and Tags::from_env
\* rejects some other environment the same interpreter could ask for.
C1_Witness ==
    \E t \in DOMAIN calls :
        /\ Done(t, "resolution_environment")
        /\ IsSome(calls[t].python_version) /\ IsSome(calls[t].python_platform)
        /\ IsOk(Returned(t))
        /\ rejected # {}

\* C2: with both overrides absent, resolution_tags and the tags half of
\* resolution_environment return the interpreter's own tag list, borrowed, with
\* no call to Tags::from_env; with an override present the tags come from
\* exactly one call to Tags::from_env.
C2_DefaultTagsBorrowed ==
    \A t \in DOMAIN calls :
        Done(t, "resolution_tags") \/ Done(t, "resolution_environment") =>
            LET c == calls[t]
                generated == CallsTo(c.trace, "Tags::from_env")
                r == Returned(t)
                cow == IF c.op = "resolution_tags" THEN OkValue(r) ELSE OkValue(r)[1]
            IN IF c.python_version = None /\ c.python_platform = None
               THEN /\ generated = {}
                    /\ Cardinality(CallsTo(c.trace, "Interpreter::tags")) = 1
                    /\ IsOk(r) => cow = CowBorrowed(OkValue(InterpreterTags(interp)))
                    /\ IsErr(r) => r = InterpreterTags(interp)
               ELSE /\ Cardinality(generated) = 1
                    /\ CallsTo(c.trace, "Interpreter::tags") = {}
                    /\ IsOk(r) =>
                          \A i \in generated :
                              cow = CowOwned(GeneratedTags(Unwrap(c.trace[i].env)))

\* resolution_tags returned the borrowed default list with no override set.
C2_Witness ==
    \E t \in DOMAIN calls :
        /\ Done(t, "resolution_tags")
        /\ calls[t].python_version = None /\ calls[t].python_platform = None
        /\ IsOk(Returned(t))
        /\ OkValue(Returned(t)).cow = "Borrowed"
        /\ rejected # {}

\* C3: every call to Tags::from_env made by resolution_tags or
\* resolution_environment passes the interpreter's own implementation name,
\* implementation tuple and GIL-disabled flag, whatever the overrides.
C3_ImplementationFromInterpreter ==
    \A t \in DOMAIN calls :
        Done(t, "resolution_tags") \/ Done(t, "resolution_environment") =>
            \A i \in CallsTo(calls[t].trace, "Tags::from_env") :
                LET env == Unwrap(calls[t].trace[i].env)
                IN /\ env.implementation_name = interp.implementation_name
                   /\ env.implementation_tuple = interp.implementation_tuple
                   /\ env.gil_disabled = interp.gil_disabled

\* Tags were generated with both overrides set for a GIL-disabled PyPy.
C3_Witness ==
    \E t \in DOMAIN calls :
        /\ Done(t, "resolution_environment")
        /\ IsSome(calls[t].python_version) /\ IsSome(calls[t].python_platform)
        /\ CallsTo(calls[t].trace, "Tags::from_env") # {}
        /\ interp.implementation_name = "pypy"
        /\ interp.gil_disabled

\* C4: in tag resolution the platform and the manylinux compatibility passed
\* to Tags::from_env both come from the platform override when it is present
\* and both from the interpreter when it is absent, and the version tuple is
\* (major, minor) of the version override when present and the interpreter's
\* python_tuple when absent, each independently of the other override.
C4_OverridesOrthogonal ==
    \A t \in DOMAIN calls :
        Done(t, "resolution_tags") \/ Done(t, "resolution_environment") =>
            \A i \in CallsTo(calls[t].trace, "Tags::from_env") :
                LET c == calls[t]
                    env == Unwrap(c.trace[i].env)
                IN /\ IF IsSome(c.python_platform)
                      THEN /\ env.platform = TargetPlatform(Unwrap(c.python_platform))
                           /\ env.manylinux_compatible =
                                  TargetManylinuxCompatible(Unwrap(c.python_platform))
                      ELSE /\ env.platform = interp.platform
                           /\ env.manylinux_compatible = interp.manylinux_compatible
                   /\ IF IsSome(c.python_version)
                      THEN env.python_tuple =
                              <<Unwrap(c.python_version).major, Unwrap(c.python_version).minor>>
                      ELSE env.python_tuple = interp.python_tuple

\* resolution_tags generated tags for a Windows target from a manylinux-compatible
\* Linux interpreter, with no version override.
C4_Witness ==
    \E t \in DOMAIN calls :
        /\ Done(t, "resolution_tags")
        /\ calls[t].python_platform = Windows
        /\ calls[t].python_version = None
        /\ interp.platform = "linux-x86_64"
        /\ interp.manylinux_compatible
        /\ CallsTo(calls[t].trace, "Tags::from_env") # {}

\* The calls a finished resolver made to compute its markers: all of them for
\* resolution_markers, those after the tag source for resolution_environment.
MarkerTrace(t) ==
    IF calls[t].op = "resolution_environment"
    THEN SubSeq(calls[t].trace, 2, Len(calls[t].trace))
    ELSE calls[t].trace

MarkersReturned(t) ==
    IF calls[t].op = "resolution_environment"
    THEN OkValue(Returned(t))[2]
    ELSE Returned(t)

FnSeq(trace) == [i \in 1..Len(trace) |-> trace[i].fn]

\* C5: resolution_markers (and the markers half of resolution_environment)
\* layers the overrides in a fixed order over the interpreter's markers: with
\* both set, version.markers(platform.markers(interpreter.markers())); with
\* one set, only that layer runs; with neither, the interpreter's own resolver
\* marker environment is returned and no layering function runs.
C5_MarkerLayering ==
    \A t \in DOMAIN calls :
        (Done(t, "resolution_markers")
            \/ (Done(t, "resolution_environment") /\ IsOk(Returned(t)))) =>
            LET c == calls[t]
                tr == MarkerTrace(t)
                m == MarkersReturned(t)
                base == InterpreterMarkers(interp)
            IN CASE IsSome(c.python_platform) /\ IsSome(c.python_version) ->
                      LET p == Unwrap(c.python_platform)
                          v == Unwrap(c.python_version)
                      IN /\ FnSeq(tr) = << "Interpreter::markers",
                                           "TargetTriple::markers",
                                           "PythonVersion::markers",
                                           "ResolverMarkerEnvironment::from" >>
                         /\ tr[2].target = {p} /\ tr[2].base = {base}
                         /\ tr[3].version = {v}
                         /\ tr[3].base = {TargetMarkers(p, base)}
                         /\ tr[4].base = {VersionMarkers(v, TargetMarkers(p, base))}
                         /\ m = ResolverMarkerEnvironmentFrom(
                                    VersionMarkers(v, TargetMarkers(p, base)))
                 [] IsSome(c.python_platform) /\ ~IsSome(c.python_version) ->
                      LET p == Unwrap(c.python_platform)
                      IN /\ FnSeq(tr) = << "Interpreter::markers",
                                           "TargetTriple::markers",
                                           "ResolverMarkerEnvironment::from" >>
                         /\ tr[2].target = {p} /\ tr[2].base = {base}
                         /\ tr[3].base = {TargetMarkers(p, base)}
                         /\ m = ResolverMarkerEnvironmentFrom(TargetMarkers(p, base))
                 [] ~IsSome(c.python_platform) /\ IsSome(c.python_version) ->
                      LET v == Unwrap(c.python_version)
                      IN /\ FnSeq(tr) = << "Interpreter::markers",
                                           "PythonVersion::markers",
                                           "ResolverMarkerEnvironment::from" >>
                         /\ tr[2].version = {v} /\ tr[2].base = {base}
                         /\ tr[3].base = {VersionMarkers(v, base)}
                         /\ m = ResolverMarkerEnvironmentFrom(VersionMarkers(v, base))
                 [] OTHER ->
                      /\ FnSeq(tr) = << "Interpreter::resolver_marker_environment" >>
                      /\ m = InterpreterResolverMarkerEnvironment(interp)

\* resolution_markers returned with both overrides set, each changing a field of
\* the interpreter's markers.
C5_Witness ==
    \E t \in DOMAIN calls :
        /\ Done(t, "resolution_markers")
        /\ calls[t].python_platform = Windows
        /\ calls[t].python_version = Version39
        /\ Returned(t).markers.sys_platform # InterpreterMarkers(interp).sys_platform
        /\ Returned(t).markers.python_version # InterpreterMarkers(interp).python_version

\* C6: a failure of the tag source (Tags::from_env, or interpreter.tags() with
\* no override) is the only error and is never recovered or retried:
\* resolution_tags and resolution_environment ask the tag source once, return
\* its error unchanged with no tags and no markers when it fails, and return
\* Ok when it succeeds; resolution_markers has no error outcome.
C6_ErrorPropagated ==
    \A t \in DOMAIN calls :
        /\ Done(t, "resolution_tags") \/ Done(t, "resolution_environment") =>
              LET c == calls[t]
                  r == Returned(t)
                  sources == CallsTo(c.trace, "Tags::from_env")
                                \cup CallsTo(c.trace, "Interpreter::tags")
              IN /\ Cardinality(sources) = 1
                 /\ \A i \in sources :
                       LET outcome == IF c.trace[i].fn = "Tags::from_env"
                                      THEN TagsFromEnv(Unwrap(c.trace[i].env))
                                      ELSE InterpreterTags(interp)
                       IN IF IsErr(outcome)
                          THEN /\ r = outcome
                               /\ r.value = {}
                               /\ Len(c.trace) = 1
                          ELSE IsOk(r)
        /\ Done(t, "resolution_markers") =>
              /\ Returned(t).resolver
              /\ CallsTo(calls[t].trace, "Tags::from_env") = {}
              /\ CallsTo(calls[t].trace, "Interpreter::tags") = {}

\* resolution_environment returned the error of Tags::from_env.
C6_Witness ==
    \E t \in DOMAIN calls :
        /\ Done(t, "resolution_environment")
        /\ IsErr(Returned(t))
        /\ CallsTo(calls[t].trace, "Tags::from_env") # {}

(***************************************************************************)
(* Properties of patch (SpecPatch).                                        *)
(***************************************************************************)
\* The positions of `s` where a whitespace-separated token starts, and where
\* the token that starts at i ends.
TokenStarts(s) ==
    { i \in DOMAIN s : ~IsWhitespace(s[i]) /\ (i = 1 \/ IsWhitespace(s[i - 1])) }

TokenEnd(s, i) ==
    CHOOSE j \in i..Len(s) :
        /\ \A k \in i..j : ~IsWhitespace(s[k])
        /\ j = Len(s) \/ IsWhitespace(s[j + 1])

\* r is the tokens of `original` in order, each one equal to `from` replaced
\* by `to`, with exactly one space between neighbours and nothing else.
IsPartialPatch(original, from, to, r) ==
    LET starts == TokenStarts(original)
        n == Cardinality(starts)
        start(k) == CHOOSE i \in starts : Cardinality({j \in starts : j < i}) = k - 1
        token(k) == SubSeq(original, start(k), TokenEnd(original, start(k)))
        word(k) == IF token(k) = from THEN to ELSE token(k)
        off[k \in 1..(n + 1)] ==
            IF k = 1 THEN 1 ELSE off[k - 1] + Len(word(k - 1)) + 1
    IN /\ Len(r) = IF n = 0 THEN 0 ELSE off[n + 1] - 2
       /\ \A k \in 1..n :
             /\ SubSeq(r, off[k], off[k] + Len(word(k)) - 1) = word(k)
             /\ k < n => r[off[k] + Len(word(k))] = " "

PatchDone(t) == Done(t, "patch")

\* C7: in Partial{from} mode patch returns the whitespace-separated tokens of
\* the original in order, each token equal to `from` replaced by `to` and every
\* other token unchanged, joined by single spaces; an empty or whitespace-only
\* original gives the empty string ("a b a" -> "Z b Z", "b  c" -> "b c").
C7_PartialReplacesTokens ==
    \A t \in DOMAIN calls :
        PatchDone(t) /\ entry.mode.kind = "Partial" =>
            LET o == calls[t].original
                r == Returned(t)
            IN /\ IsPartialPatch(o, Unwrap(entry.mode.from), entry.to, r)
               /\ (\A i \in DOMAIN o : IsWhitespace(o[i])) => r = <<>>
               /\ entry = DefaultEntry =>
                     /\ o = <<"a", " ", "b", " ", "a">> => r = <<"Z", " ", "b", " ", "Z">>
                     /\ o = <<"b", " ", " ", "c">> => r = <<"b", " ", "c">>
                     /\ o = <<>> => r = <<>>

\* patch in Partial mode returned for an original with a token equal to `from`,
\* one that is not, and a run of whitespace between tokens.
C7_Witness ==
    \E t \in DOMAIN calls :
        /\ PatchDone(t)
        /\ ~calls[t].again
        /\ entry = DefaultEntry
        /\ calls[t].original = <<"b", "\t", "\t", "a", "b", " ", "a">>
        /\ Returned(t) = <<"b", " ", "a", "b", " ", "Z">>

\* C8: in Full mode patch returns exactly `to` for every original, the empty
\* string included.
C8_FullReturnsTo ==
    \A t \in DOMAIN calls :
        PatchDone(t) /\ entry.mode.kind = "Full" => Returned(t) = entry.to

\* patch in Full mode returned for the empty original and a non-empty `to`.
C8_Witness ==
    \E t \in DOMAIN calls :
        /\ PatchDone(t)
        /\ ~calls[t].again
        /\ entry.mode.kind = "Full"
        /\ calls[t].original = <<>>
        /\ entry.to # <<>>

\* `to` is a single non-empty token without whitespace.
IsSingleToken(to) == to # <<>> /\ \A i \in DOMAIN to : ~IsWhitespace(to[i])

\* C10: Partial-mode patch is idempotent whenever `to` is a single non-empty
\* token without whitespace: patch(patch(original)) = patch(original).
C10_PartialIdempotent ==
    \A t \in DOMAIN calls :
        (/\ PatchDone(t)
         /\ calls[t].again
         /\ entry.mode.kind = "Partial"
         /\ IsSingleToken(entry.to)) => Returned(t) = calls[t].original

\* patch was applied to its own output, after changing two tokens of the
\* first original.
C10_Witness ==
    \E t \in DOMAIN calls :
        /\ PatchDone(t)
        /\ calls[t].again
        /\ entry = DefaultEntry
        /\ calls[t].first = {<<"a", " ", "b", " ", "a">>}
        /\ calls[t].original = <<"Z", " ", "b", " ", "Z">>

(***************************************************************************)
(* Properties of concurrent callers (SpecConc).                            *)
(***************************************************************************)
\* What the call of caller t returns when it runs alone on the shared facts.
Alone(c) ==
    CASE c.op = "resolution_markers" ->
           ResolutionMarkers(c.python_version, c.python_platform, interp).ret
      [] c.op = "resolution_tags" ->
           ResolutionTags(c.python_version, c.python_platform, interp).ret
      [] c.op = "resolution_environment" ->
           ResolutionEnvironment(c.python_version, c.python_platform, interp).ret
      [] OTHER -> Patch(entry, c.original)

\* One step of the callers: the shared facts and entry stay as they were, a
\* call in flight keeps its arguments, at most one caller moves, and every
\* finished call holds the value the call returns alone.
IsolatedStep ==
    /\ interp' = interp
    /\ entry' = entry
    /\ \A t \in DOMAIN calls :
          calls[t].pc = "called" /\ calls'[t].pc # "idle" =>
              /\ calls'[t].python_version = calls[t].python_version
              /\ calls'[t].python_platform = calls[t].python_platform
              /\ calls'[t].original = calls[t].original
    /\ Cardinality({ t \in DOMAIN calls : calls'[t] # calls[t] }) <= 1
    /\ \A t \in DOMAIN calls :
          calls'[t].pc = "done" => calls'[t].ret = {Alone(calls'[t])}

\* C9: under any interleaving of concurrent calls to the three resolvers and
\* patch on the same interpreter facts and replacement entry, no call changes
\* the facts, the overrides or the entry, and each call returns what it returns
\* when run alone with the same arguments.
C9_CallsIsolated == [][IsolatedStep]_vars

\* Two calls are in flight at once, a finished patch beside a finished
\* resolution_environment that failed.
C9_Witness ==
    \E t, u \in DOMAIN calls :
        /\ t # u
        /\ Done(t, "patch")
        /\ calls[t].original = <<"a", " ", "b", " ", "a">>
        /\ Done(u, "resolution_environment")
        /\ IsErr(Returned(u))

====
